---- MODULE Spec2Model ----
(***************************************************************************)
(* Model of the niet2code zk-cli (src/zk-cli/src/main.rs): the prove and   *)
(* verify pipeline over Groth16/BN254, the artifact files it writes and    *)
(* reads, and the builder-stats file shared by prove, init and dashboard.  *)
(*                                                                         *)
(* Every CLI invocation is one process; a step of a process is one library *)
(* call or one file system call of main().  Spec runs the invocations one  *)
(* after another; SpecConc runs two of them concurrently, interleaved as   *)
(* the operating system interleaves their system calls.  Both run in a     *)
(* directory without ../.env; SpecEnv is Spec with that file written,      *)
(* rewritten and removed between the invocations.                          *)
(* SpecProve runs prove invocations only.  SpecPrivy runs the privy auth,  *)
(* report and status commands (privy_integration.rs), and SpecCost the two *)
(* deployment-cost estimates of the thirdweb commands                      *)
(* (thirdweb_integration.rs) for one template and one network.             *)
(*                                                                         *)
(* Groth16 is modelled ideally (complete and sound): a key pair is named   *)
(* by the randomness of its setup, a proof records the proving key and the *)
(* public input it was made for, and verification compares them.           *)
(***************************************************************************)
EXTENDS FiniteSets, Integers, Sequences, TLC

\* ------------------------------------------------------------------ bounds
\* Number of prove invocations in one behaviour (verify, init and dashboard
\* invocations are not counted: they can be repeated without end), when the
\* invocations run one after another and when they run concurrently.
MaxRuns == 3
MaxConcRuns == 2
\* Number of failing library and file system calls in one behaviour.
MaxFaults == 1

\* --------------------------------------------------------------- constants
\* Width of the u64 arguments a, b, c.  The source width is 64; the model
\* scales it to 4 bits so that products that overflow the width are within
\* reach of TLC's integers.
U64Bits == 4
U64Mod == 2 ^ U64Bits
\* Order of the scalar field Fr.  In the source it is the BN254 group order
\* (about 2^254), larger than any product of two u64 (below 2^128); in the
\* scaled model it is a prime larger than (U64Mod - 1)^2.
FrMod == 257

Procs == {"p1", "p2"}

\* Option<T>: None is the empty sequence, Some(v) the one-element sequence.
None == <<>>
Some(v) == <<v>>

\* Inputs of the prove command (a, b, c, out, network): a matching c, a
\* mismatching c, and a product that overflows the width of a, b, c and
\* whose wrapped value is the c supplied.
Outs == {"../calldata.bin", "../calldata2.bin"}
ProveArgs ==
    {[a |-> 2, b |-> 4, c |-> 8, out |-> "../calldata.bin", network |-> None],
     [a |-> 3, b |-> 4, c |-> 8, out |-> "../calldata2.bin",
      network |-> Some("mantle-testnet")],
     [a |-> 4, b |-> 4, c |-> 0, out |-> "../calldata.bin",
      network |-> Some("mantle-testnet")]}
Aliases == {None, Some("alice")}

\* ------------------------------------------------------------------- paths
PROOF_PATH == "../proofs/proof.bin"
INPUT_PATH == "../proofs/public_input.bin"
VK_BIN_PATH == "../keys/verifying_key.bin"
VK_RS_PATH == "verifying_key.rs"
STATS_PATH == "../builder_stats.json"
\* A public-input file of the caller's own, for verify --input.
USER_INPUT_PATH == "../my_input.bin"
\* The file from which main loads environment variables, among them the
\* credentials of the Privy and ThirdWeb integrations.
ENV_PATH == "../.env"
\* The file in which privy auth persists its authentication state.
PRIVY_AUTH_PATH == "../privy_auth_state.json"
PROOFS_DIR == "../proofs"
KEYS_DIR == "../keys"

Paths ==
    {PROOF_PATH, INPUT_PATH, VK_BIN_PATH, VK_RS_PATH, STATS_PATH, USER_INPUT_PATH,
     ENV_PATH, PRIVY_AUTH_PATH}
        \cup Outs
VerifyInputs == {INPUT_PATH, USER_INPUT_PATH}

\* ------------------------------------------------------------ file system
\* A file is absent, truncated (created but its content not written), or
\* holds content.  "run" is the invocation that wrote it and "mut" tells
\* whether a byte was changed since (both history only).
Absent == [st |-> "absent"]
Trunc == [st |-> "trunc"]
FileOf(kind, variant, val, run) ==
    [st |-> "ok", kind |-> kind, variant |-> variant, val |-> val, run |-> run,
     mut |-> FALSE]

\* The files a change of one byte of a serialized artifact, as it was
\* written, can give: bytes
\* that are no encoding of the artifact type, or the encoding of another
\* value.  Another field element is another number; another proof is a
\* group element for which the pairing equation no longer holds; another
\* verifying key is a key that no setup of the program produced.
Garbled(file) == [file EXCEPT !.kind = "garbage", !.mut = TRUE]
MutatedFiles(file) ==
    IF file.st # "ok" \/ file.mut THEN {}
    ELSE {Garbled(file)} \cup
         CASE file.kind = "fr" ->
                {[file EXCEPT !.val = (@ + 1) % FrMod, !.mut = TRUE],
                 [file EXCEPT !.val = (@ + FrMod - 1) % FrMod, !.mut = TRUE]}
           [] file.kind = "proof" ->
                {[file EXCEPT !.val = [@ EXCEPT !.sat = FALSE], !.mut = TRUE]}
           [] file.kind = "vk" ->
                {[file EXCEPT !.val = 0, !.mut = TRUE]}
           [] OTHER -> {}

\* std::fs::write / File::create + write: the call succeeds, fails before
\* the file is created or truncated, or fails after truncating it.
WriteOutcomes == {"ok", "create_failed", "write_failed"}
CallOutcomes == {"ok", "failed"}

\* Mutant of FsAfterWrite: a file that exists is not replaced.
FsAfterWriteKeepExisting(files, path, content, outcome) ==
    CASE outcome = "ok" /\ files[path].st = "ok" -> files
      [] outcome = "ok" -> [files EXCEPT ![path] = content]
      [] outcome = "write_failed" -> [files EXCEPT ![path] = Trunc]
      [] OTHER -> files

FsAfterWrite(files, path, content, outcome) ==
    CASE outcome = "ok" -> [files EXCEPT ![path] = content]
      [] outcome = "write_failed" -> [files EXCEPT ![path] = Trunc]
      [] OTHER -> files

\* ------------------------------------------------------------- arithmetic
Fr_from(x) == x % FrMod
Fr_mul(x, y) == (x * y) % FrMod

\* `*a * *b` on u64: with overflow checks (cargo's dev profile) an overflowing
\* product panics, without them (release profile) it wraps.
MulU64(x, y) ==
    IF x * y < U64Mod
    THEN {[panic |-> FALSE, val |-> x * y]}
    ELSE {[panic |-> TRUE, val |-> 0], [panic |-> FALSE, val |-> (x * y) % U64Mod]}

\* ---------------------------------------------------------------- circuit
MulCircuit(a, b, c) == [a |-> a, b |-> b, c |-> c]

\* ---------------------------------------------------------------- Groth16
\* Mutant of thread_rng: every invocation draws the same randomness.
thread_rng_reused(run) == 0

\* thread_rng(): fresh randomness per invocation, named by the invocation.
thread_rng(run) == run

\* Mutant of generate_random_parameters: the key pair of the first setup
\* is used again.
generate_random_parameters_cached(circuit, rnd) == [pk |-> 1, vk |-> 1]

\* generate_random_parameters_with_reduction: a key pair bound to the
\* relation and to the randomness of this setup.
generate_random_parameters(circuit, rnd) == [pk |-> rnd, vk |-> rnd]

\* create_random_proof_with_reduction: the proof is bound to the proving key
\* and to the public input c of the witness; it is a valid proof only if the
\* witness satisfies a * b = c.
create_random_proof(circuit, params) ==
    [key |-> params.pk,
     pub |-> circuit.c[1],
     sat |-> Fr_mul(circuit.a[1], circuit.b[1]) = circuit.c[1]]

prepare_verifying_key(vk) == [vk |-> vk, arity |-> 1]

\* Mutant of verify_proof: the pairing check leaves the public input out.
verify_proof_ignoring_input(pvk, proof, inputs) ==
    IF Len(inputs) # pvk.arity
    THEN [err |-> TRUE, valid |-> FALSE]
    ELSE [err |-> FALSE, valid |-> proof.key = pvk.vk /\ proof.sat]

\* Mutant of verify_proof: the pairing check leaves the proof elements out.
verify_proof_ignoring_proof(pvk, proof, inputs) ==
    IF Len(inputs) # pvk.arity
    THEN [err |-> TRUE, valid |-> FALSE]
    ELSE [err |-> FALSE, valid |-> proof.key = pvk.vk /\ proof.pub = inputs[1]]

\* verify_proof: an error when the number of public inputs is not the
\* arity of the key, otherwise the pairing check.
verify_proof(pvk, proof, inputs) ==
    IF Len(inputs) # pvk.arity
    THEN [err |-> TRUE, valid |-> FALSE]
    ELSE [err |-> FALSE,
          valid |-> proof.key = pvk.vk /\ proof.sat /\ proof.pub = inputs[1]]

\* ------------------------------------------------------------------ codec
\* Encoders of the prover crate: the proof compressed, the public input and
\* the verifying key uncompressed.
save_proof_content(proof, run) == FileOf("proof", "compressed", proof, run)
save_public_input_content(c_fr, run) == FileOf("fr", "uncompressed", c_fr, run)
save_verifying_key_content(vk, run) == FileOf("vk", "uncompressed", vk, run)
save_calldata_content(proof, c_fr, run) ==
    FileOf("calldata", "evm", [proof |-> proof, pub |-> c_fr], run)
export_verifying_key_content(vk, run) == FileOf("vk_rs", "source", vk, run)

\* Mutant of Deserialize: a truncated file decodes to zero values.
DeserializeZeroFilled(file, kind, variant) ==
    CASE file.st = "absent" -> [err |-> "file"]
      [] file.st = "trunc" ->
           [err |-> "none",
            val |-> IF kind = "proof" THEN [key |-> 0, pub |-> 0, sat |-> FALSE]
                    ELSE 0,
            run |-> 0]
      [] file.kind # kind -> [err |-> "deserialize"]
      [] file.kind # "fr" /\ file.variant # variant -> [err |-> "deserialize"]
      [] OTHER -> [err |-> "none", val |-> file.val, run |-> file.run]

\* CanonicalDeserialize: opening an absent file is a file error; a truncated
\* file or a group-element encoding of the other variant fails to
\* deserialize; a field element has the same bytes in both variants.
Deserialize(file, kind, variant) ==
    CASE file.st = "absent" -> [err |-> "file"]
      [] file.st = "trunc" -> [err |-> "deserialize"]
      [] file.kind # kind -> [err |-> "deserialize"]
      [] file.kind # "fr" /\ file.variant # variant -> [err |-> "deserialize"]
      [] OTHER -> [err |-> "none", val |-> file.val, run |-> file.run]

\* Mutant of DeserializeProof: the proof is read in the other variant.
DeserializeProofUncompressed(file) == Deserialize(file, "proof", "uncompressed")

\* The three readers of Commands::Verify.
DeserializeProof(file) == Deserialize(file, "proof", "compressed")
DeserializeInput(file) == Deserialize(file, "fr", "uncompressed")

\* Mutant of DeserializeVk: the verifying key is read in the other variant.
DeserializeVkCompressed(file) == Deserialize(file, "vk", "compressed")

DeserializeVk(file) == Deserialize(file, "vk", "uncompressed")


\* The caller's own public-input file holds the field element 8.
UserInputFile == FileOf("fr", "uncompressed", Fr_from(8), 0)

\* ------------------------------------------------------------------ stats
BuilderStats_default ==
    [deployments |-> 0, proofs_generated |-> 0, gas_saved_estimate |-> 0,
     networks |-> <<>>, privacy_score |-> 0, builder_alias |-> "",
     wallet_address |-> ""]

\* load_or_create_stats: the default when the file cannot be read or parsed.
load_or_create_stats(files) ==
    IF files[STATS_PATH].st = "ok" THEN files[STATS_PATH].val
    ELSE BuilderStats_default

SeqContains(s, x) == \E i \in 1..Len(s) : s[i] = x
Min(x, y) == IF x < y THEN x ELSE y

\* Mutant of stats_for_proof: the update starts from a record without the
\* alias.
stats_for_proof_without_alias(stats, network) ==
    LET nets == IF network # None /\ ~SeqContains(stats.networks, network[1])
                THEN Append(stats.networks, network[1])
                ELSE stats.networks
        n == stats.proofs_generated + 1
    IN [stats EXCEPT
          !.proofs_generated = n,
          !.gas_saved_estimate = stats.gas_saved_estimate + 75000,
          !.networks = nets,
          !.builder_alias = "",
          !.privacy_score = Min(n * 8 + Len(nets) * 15 + stats.deployments * 10, 100)]

\* update_stats_for_proof, from the loaded stats to the stats it saves.
stats_for_proof(stats, network) ==
    LET nets == IF network # None /\ ~SeqContains(stats.networks, network[1])
                THEN Append(stats.networks, network[1])
                ELSE stats.networks
        n == stats.proofs_generated + 1
    IN [stats EXCEPT
          !.proofs_generated = n,
          !.gas_saved_estimate = stats.gas_saved_estimate + 75000,
          !.networks = nets,
          !.privacy_score = Min(n * 8 + Len(nets) * 15 + stats.deployments * 10, 100)]

\* ------------------------------------------------------------------ state
VARIABLES
    fs,            \* path -> file
    dirs,          \* directories that exist
    proc,          \* process slot -> the invocation it runs
    nextRun,       \* number of the next prove invocation
    faults,        \* failed library and file system calls and outside
                   \* changes of files so far
    maxPersisted,  \* history: highest proofs_generated ever persisted
    maxScore,      \* history: highest privacy_score ever persisted
    supplied       \* history: networks supplied to successful prove runs

vars == <<fs, dirs, proc, nextRun, faults, maxPersisted, maxScore, supplied>>

IdleProc ==
    [pc |-> "idle", cmd |-> "none", run |-> 0,
     a |-> 0, b |-> 0, c |-> 0, out |-> "", network |-> None, alias |-> None,
     input |-> "",
     c_fr |-> 0, warned |-> FALSE,
     circuits |-> <<>>, params |-> None, proof |-> None,
     stats |-> None,
     rproof |-> None, rinput |-> None, rvk |-> None, valid |-> None,
     authenticated_user |-> None, report |-> None,
     template |-> "", network_name |-> <<>>,
     final_cost |-> None, estimated_cost |-> None,
     exit |-> "none", cause |-> "none", reported |-> "none",
     statsCalls |-> 0, rd |-> {}, wr |-> {}]

\* What ../.env can hold: lines KEY=VALUE with the credentials, or in
\* addition a line that starts with "=" and so has an empty key.
EnvFiles ==
    {FileOf("env", "text", "credentials", 0), FileOf("env", "text", "empty_key", 0)}

\* The head of main, before the command is dispatched: when ../.env can be
\* read, every line that holds "=" and is no comment is split at the first
\* "=" and set with std::env::set_var, which panics on an empty key.
load_env(files, rec) ==
    CASE files[ENV_PATH].st # "ok" -> rec
      [] files[ENV_PATH].val = "empty_key" ->
           [rec EXCEPT !.pc = "done", !.exit = "panic", !.cause = "env",
                       !.rd = @ \cup {ENV_PATH}]
      [] OTHER -> [rec EXCEPT !.rd = @ \cup {ENV_PATH}]

Init ==
    /\ fs = [path \in Paths |->
               IF path = USER_INPUT_PATH THEN UserInputFile ELSE Absent]
    /\ dirs = {}
    /\ proc = [p \in Procs |-> IdleProc]
    /\ nextRun = 1
    /\ faults = 0
    /\ maxPersisted = 0
    /\ maxScore = 0
    /\ supplied = {}

\* A process slot is free for a new invocation.  The slots are
\* interchangeable, so the second one is used only while the first is busy.
Free(p) == proc[p].pc \in {"idle", "done"}
CanStart(p) == Free(p) /\ (p = "p1" \/ ~Free("p1"))

\* Mutant of ProveNextPc: the stats update runs before the verifying key
\* is exported.
ProveNextPcEarlyStats(pc) ==
    CASE pc = "prove_check" -> "prove_setup"
      [] pc = "prove_setup" -> "prove_create"
      [] pc = "prove_create" -> "prove_mkdir_proofs"
      [] pc = "prove_mkdir_proofs" -> "prove_mkdir_keys"
      [] pc = "prove_mkdir_keys" -> "prove_save_calldata"
      [] pc = "prove_save_calldata" -> "prove_save_proof"
      [] pc = "prove_save_proof" -> "prove_save_input"
      [] pc = "prove_save_input" -> "prove_save_vk"
      [] pc = "prove_save_vk" -> "prove_stats_load"
      [] pc = "prove_stats_load" -> "prove_stats_save"
      [] pc = "prove_stats_save" -> "prove_export_vk"
      [] pc = "prove_export_vk" -> "prove_report"
      [] OTHER -> "done"

\* Mutant of ProveNextPc: the public input is not saved.
ProveNextPcSkipInput(pc) ==
    CASE pc = "prove_check" -> "prove_setup"
      [] pc = "prove_setup" -> "prove_create"
      [] pc = "prove_create" -> "prove_mkdir_proofs"
      [] pc = "prove_mkdir_proofs" -> "prove_mkdir_keys"
      [] pc = "prove_mkdir_keys" -> "prove_save_calldata"
      [] pc = "prove_save_calldata" -> "prove_save_proof"
      [] pc = "prove_save_proof" -> "prove_save_vk"
      [] pc = "prove_save_vk" -> "prove_export_vk"
      [] pc = "prove_export_vk" -> "prove_stats_load"
      [] pc = "prove_stats_load" -> "prove_stats_save"
      [] pc = "prove_stats_save" -> "prove_report"
      [] OTHER -> "done"

\* Mutant of ProveNextPc: the output directories are created before the
\* proof is generated.
ProveNextPcMkdirFirst(pc) ==
    CASE pc = "prove_check" -> "prove_setup"
      [] pc = "prove_setup" -> "prove_mkdir_proofs"
      [] pc = "prove_mkdir_proofs" -> "prove_mkdir_keys"
      [] pc = "prove_mkdir_keys" -> "prove_create"
      [] pc = "prove_create" -> "prove_save_calldata"
      [] pc = "prove_save_calldata" -> "prove_save_proof"
      [] pc = "prove_save_proof" -> "prove_save_input"
      [] pc = "prove_save_input" -> "prove_save_vk"
      [] pc = "prove_save_vk" -> "prove_export_vk"
      [] pc = "prove_export_vk" -> "prove_stats_load"
      [] pc = "prove_stats_load" -> "prove_stats_save"
      [] pc = "prove_stats_save" -> "prove_report"
      [] OTHER -> "done"

\* The statements of Commands::Prove in program order.
ProveNextPc(pc) ==
    CASE pc = "prove_check" -> "prove_setup"
      [] pc = "prove_setup" -> "prove_create"
      [] pc = "prove_create" -> "prove_mkdir_proofs"
      [] pc = "prove_mkdir_proofs" -> "prove_mkdir_keys"
      [] pc = "prove_mkdir_keys" -> "prove_save_calldata"
      [] pc = "prove_save_calldata" -> "prove_save_proof"
      [] pc = "prove_save_proof" -> "prove_save_input"
      [] pc = "prove_save_input" -> "prove_save_vk"
      [] pc = "prove_save_vk" -> "prove_export_vk"
      [] pc = "prove_export_vk" -> "prove_stats_load"
      [] pc = "prove_stats_load" -> "prove_stats_save"
      [] pc = "prove_stats_save" -> "prove_report"
      [] OTHER -> "done"

\* The outcomes a call can have: a failure only within the fault budget.
Allowed(outcomes) == IF faults < MaxFaults THEN outcomes ELSE {"ok"}
FaultsAfter(outcome) == IF outcome = "ok" THEN faults ELSE faults + 1

\* Mutant of Fail: the invocation stays at the failed step and attempts it
\* again.
FailAndRetry(rec, cause) == rec

\* `?` on a failed call: main returns the error.
Fail(rec, cause) ==
    [rec EXCEPT !.pc = "done", !.exit = "err", !.cause = cause, !.stats = None]

\* ------------------------------------------------------------------ prove
\* Commands::Prove is invoked with a, b, c, out and network.
StartProve(p, args, maxRuns) ==
    /\ CanStart(p)
    /\ nextRun <= maxRuns
    /\ proc' = [proc EXCEPT ![p] =
                  load_env(fs,
                  [IdleProc EXCEPT !.pc = "prove_check", !.cmd = "prove",
                                   !.run = nextRun,
                                   !.a = args.a, !.b = args.b, !.c = args.c,
                                   !.out = args.out, !.network = args.network])]
    /\ nextRun' = nextRun + 1
    /\ UNCHANGED <<fs, dirs, faults, maxPersisted, maxScore, supplied>>

\* The warning condition of the mismatch check, on the u64 product.
MismatchWarned(product, c) == product # c

\* c_fr = a_fr * b_fr and the mismatch check `*a * *b != *c`.
ProveCheck(p) ==
    /\ proc[p].pc = "prove_check"
    /\ \E m \in MulU64(proc[p].a, proc[p].b) :
         proc' = [proc EXCEPT ![p] =
                    IF m.panic
                    THEN [@ EXCEPT !.pc = "done", !.exit = "panic",
                                   !.cause = "overflow",
                                   !.c_fr = Fr_mul(Fr_from(proc[p].a), Fr_from(proc[p].b))]
                    ELSE [@ EXCEPT !.pc = ProveNextPc("prove_check"),
                                   !.c_fr = Fr_mul(Fr_from(proc[p].a), Fr_from(proc[p].b)),
                                   !.warned = MismatchWarned(m.val, proc[p].c)]]
    /\ UNCHANGED <<fs, dirs, nextRun, faults, maxPersisted, maxScore, supplied>>

\* The two circuit instances of Commands::Prove.
setup_circuit == MulCircuit(None, None, None)

\* Mutant of prove_circuit: the instance takes the c of the caller.
prove_circuit_caller_c(rec) ==
    MulCircuit(Some(Fr_from(rec.a)), Some(Fr_from(rec.b)), Some(Fr_from(rec.c)))

prove_circuit(rec) == MulCircuit(Some(Fr_from(rec.a)), Some(Fr_from(rec.b)), Some(rec.c_fr))

\* Groth16 setup on the unassigned circuit; the library call can fail.
ProveSetup(p) ==
    /\ proc[p].pc = "prove_setup"
    /\ \E outcome \in Allowed(CallOutcomes) :
         /\ faults' = FaultsAfter(outcome)
         /\ proc' = [proc EXCEPT ![p] =
                    IF outcome = "ok"
                    THEN [@ EXCEPT !.pc = ProveNextPc("prove_setup"),
                                   !.circuits = Append(@, setup_circuit),
                                   !.params = Some(generate_random_parameters(
                                                  setup_circuit, thread_rng(proc[p].run)))]
                    ELSE [Fail(@, "setup") EXCEPT
                            !.circuits = Append(@, setup_circuit)]]
    /\ UNCHANGED <<fs, dirs, nextRun, maxPersisted, maxScore, supplied>>

\* Groth16 proof generation on the assigned circuit; the call can fail.
ProveCreate(p) ==
    /\ proc[p].pc = "prove_create"
    /\ \E outcome \in Allowed(CallOutcomes) :
         /\ faults' = FaultsAfter(outcome)
         /\ proc' = [proc EXCEPT ![p] =
                    IF outcome = "ok"
                    THEN [@ EXCEPT !.pc = ProveNextPc("prove_create"),
                                   !.circuits = Append(@, prove_circuit(proc[p])),
                                   !.proof = Some(create_random_proof(
                                                 prove_circuit(proc[p]), proc[p].params[1]))]
                    ELSE [Fail(@, "prove") EXCEPT
                            !.circuits = Append(@, prove_circuit(proc[p]))]]
    /\ UNCHANGED <<fs, dirs, nextRun, maxPersisted, maxScore, supplied>>

\* std::fs::create_dir_all: creates the directory or fails.
MkdirStep(p, pc, dir) ==
    /\ proc[p].pc = pc
    /\ \E outcome \in Allowed(CallOutcomes) :
         /\ faults' = FaultsAfter(outcome)
         /\ dirs' = IF outcome = "ok" THEN dirs \cup {dir} ELSE dirs
         /\ proc' = [proc EXCEPT ![p] =
                       IF outcome = "ok" THEN [@ EXCEPT !.pc = ProveNextPc(pc)]
                       ELSE Fail(@, "mkdir")]
    /\ UNCHANGED <<fs, nextRun, maxPersisted, maxScore, supplied>>

ProveMkdirProofs(p) == MkdirStep(p, "prove_mkdir_proofs", PROOFS_DIR)
ProveMkdirKeys(p) == MkdirStep(p, "prove_mkdir_keys", KEYS_DIR)

\* One artifact write of the prove run.
WriteStep(p, pc, path, content) ==
    /\ proc[p].pc = pc
    /\ \E outcome \in Allowed(WriteOutcomes) :
         /\ faults' = FaultsAfter(outcome)
         /\ fs' = FsAfterWrite(fs, path, content, outcome)
         /\ proc' = [proc EXCEPT ![p] =
                       IF outcome = "ok"
                       THEN [@ EXCEPT !.pc = ProveNextPc(pc), !.wr = @ \cup {path}]
                       ELSE [Fail(@, "write") EXCEPT
                               !.wr = IF outcome = "write_failed"
                                      THEN @ \cup {path} ELSE @]]
    /\ UNCHANGED <<dirs, nextRun, maxPersisted, maxScore, supplied>>

ProveSaveCalldata(p) ==
    WriteStep(p, "prove_save_calldata", proc[p].out,
              save_calldata_content(proc[p].proof[1], proc[p].c_fr, proc[p].run))

ProveSaveProof(p) ==
    WriteStep(p, "prove_save_proof", PROOF_PATH,
              save_proof_content(proc[p].proof[1], proc[p].run))

ProveSavePublicInput(p) ==
    WriteStep(p, "prove_save_input", INPUT_PATH,
              save_public_input_content(proc[p].c_fr, proc[p].run))

ProveSaveVerifyingKey(p) ==
    WriteStep(p, "prove_save_vk", VK_BIN_PATH,
              save_verifying_key_content(proc[p].params[1].vk, proc[p].run))

ProveExportVk(p) ==
    WriteStep(p, "prove_export_vk", VK_RS_PATH,
              export_verifying_key_content(proc[p].params[1].vk, proc[p].run))

\* update_stats_for_proof, first half: load_or_create_stats.
ProveStatsLoad(p) ==
    /\ proc[p].pc = "prove_stats_load"
    /\ proc' = [proc EXCEPT ![p] =
                  [@ EXCEPT !.pc = ProveNextPc("prove_stats_load"),
                            !.stats = Some(load_or_create_stats(fs)),
                            !.statsCalls = @ + 1,
                            !.rd = @ \cup {STATS_PATH}]]
    /\ UNCHANGED <<fs, dirs, nextRun, faults, maxPersisted, maxScore, supplied>>

\* What `update_stats_for_proof(..)?` makes of a failed stats update.
StatsFailure(rec) == Fail(rec, "stats")

\* save_stats of a stats record by process p, going to nextpc on success.
SaveStatsStep(p, pc, newStats, nextpc) ==
    /\ proc[p].pc = pc
    /\ \E outcome \in Allowed(WriteOutcomes) :
         /\ faults' = FaultsAfter(outcome)
         /\ fs' = FsAfterWrite(fs, STATS_PATH,
                               FileOf("stats", "json", newStats, proc[p].run), outcome)
         /\ maxPersisted' = IF outcome = "ok" /\ newStats.proofs_generated > maxPersisted
                            THEN newStats.proofs_generated ELSE maxPersisted
         /\ maxScore' = IF outcome = "ok" /\ newStats.privacy_score > maxScore
                        THEN newStats.privacy_score ELSE maxScore
         /\ proc' = [proc EXCEPT ![p] =
                       IF outcome = "ok"
                       THEN [@ EXCEPT !.pc = nextpc, !.wr = @ \cup {STATS_PATH}]
                       ELSE [StatsFailure(@) EXCEPT
                               !.wr = IF outcome = "write_failed"
                                      THEN @ \cup {STATS_PATH} ELSE @]]
    /\ UNCHANGED <<dirs, nextRun, supplied>>

\* update_stats_for_proof, second half: the update and save_stats.
ProveStatsSave(p) ==
    SaveStatsStep(p, "prove_stats_save",
                  stats_for_proof(proc[p].stats[1], proc[p].network),
                  ProveNextPc("prove_stats_save"))

\* The success report at the end of Commands::Prove.
ProveReport(p) ==
    /\ proc[p].pc = "prove_report"
    /\ proc' = [proc EXCEPT ![p] =
                  [@ EXCEPT !.pc = "done", !.exit = "ok", !.reported = "success",
                            !.stats = None]]
    /\ supplied' = IF proc[p].network = None THEN supplied
                   ELSE supplied \cup {proc[p].network[1]}
    /\ UNCHANGED <<fs, dirs, nextRun, faults, maxPersisted, maxScore>>

\* ----------------------------------------------------------------- verify
\* Commands::Verify on the artifact files of the prove command.
StartVerify(p, input) ==
    /\ CanStart(p)
    /\ proc' = [proc EXCEPT ![p] =
                  load_env(fs,
                  [IdleProc EXCEPT !.pc = "verify_read_proof", !.cmd = "verify",
                                   !.input = input])]
    /\ UNCHANGED <<fs, dirs, nextRun, faults, maxPersisted, maxScore, supplied>>

\* Mutant of FsAfterOpen: the file is opened for writing and created when
\* it does not exist.
FsAfterOpenCreating(files, path) ==
    IF files[path].st = "absent" THEN [files EXCEPT ![path] = Trunc] ELSE files

\* File::open: the file is opened for reading only.
FsAfterOpen(files, path) == files

\* One input read of the verify run: File::open and deserialization.
ReadStep(p, pc, path, decoded, field, nextpc) ==
    /\ proc[p].pc = pc
    /\ proc' = [proc EXCEPT ![p] =
                  IF decoded.err = "none"
                  THEN [@ EXCEPT !.pc = nextpc, ![field] = Some(decoded),
                                 !.rd = @ \cup {path}]
                  ELSE [Fail(@, decoded.err) EXCEPT
                          !.rd = IF decoded.err = "file" THEN @ ELSE @ \cup {path}]]
    /\ fs' = FsAfterOpen(fs, path)
    /\ UNCHANGED <<dirs, nextRun, faults, maxPersisted, maxScore, supplied>>

VerifyReadProof(p) ==
    ReadStep(p, "verify_read_proof", PROOF_PATH, DeserializeProof(fs[PROOF_PATH]),
             "rproof", "verify_read_input")

VerifyReadInput(p) ==
    ReadStep(p, "verify_read_input", proc[p].input,
             DeserializeInput(fs[proc[p].input]), "rinput", "verify_read_vk")

VerifyReadVk(p) ==
    ReadStep(p, "verify_read_vk", VK_BIN_PATH, DeserializeVk(fs[VK_BIN_PATH]),
             "rvk", "verify_check")

\* prepare_verifying_key and verify_proof(&pvk, &proof, &[public_input])?.
VerifyCheck(p) ==
    /\ proc[p].pc = "verify_check"
    /\ LET res == verify_proof(prepare_verifying_key(proc[p].rvk[1].val),
                               proc[p].rproof[1].val, <<proc[p].rinput[1].val>>)
       IN proc' = [proc EXCEPT ![p] =
                     IF res.err THEN Fail(@, "verify")
                     ELSE [@ EXCEPT !.pc = "verify_report", !.valid = Some(res.valid)]]
    /\ UNCHANGED <<fs, dirs, nextRun, faults, maxPersisted, maxScore, supplied>>

\* Mutant of VerifyOutcome: a negative result is returned as an error.
VerifyOutcomeStrict(rec, valid) ==
    IF valid
    THEN [rec EXCEPT !.pc = "done", !.exit = "ok", !.reported = "PASSED"]
    ELSE [rec EXCEPT !.pc = "done", !.exit = "err", !.cause = "invalid",
                     !.reported = "FAILED"]

\* How the verify command ends for a verification result.
VerifyOutcome(rec, valid) ==
    [rec EXCEPT !.pc = "done", !.exit = "ok",
                !.reported = IF valid THEN "PASSED" ELSE "FAILED"]

VerifyReport(p) ==
    /\ proc[p].pc = "verify_report"
    /\ proc' = [proc EXCEPT ![p] = VerifyOutcome(@, @.valid[1])]
    /\ UNCHANGED <<fs, dirs, nextRun, faults, maxPersisted, maxScore, supplied>>

\* ------------------------------------------------------------ environment
\* Between two invocations, somebody changes one byte of one of the files
\* that verify reads at a fixed path.
Tamper(path) ==
    /\ \A p \in Procs : Free(p)
    /\ faults < MaxFaults
    /\ \E file \in MutatedFiles(fs[path]) : fs' = [fs EXCEPT ![path] = file]
    /\ faults' = faults + 1
    /\ UNCHANGED <<dirs, proc, nextRun, maxPersisted, maxScore, supplied>>

\* Between two invocations, the user writes, rewrites or removes ../.env.
EditEnv(content) ==
    /\ \A p \in Procs : Free(p)
    /\ content # fs[ENV_PATH]
    /\ fs' = [fs EXCEPT ![ENV_PATH] = content]
    /\ UNCHANGED <<dirs, proc, nextRun, faults, maxPersisted, maxScore, supplied>>

\* ------------------------------------------------------- dashboard, init
StartDashboard(p) ==
    /\ CanStart(p)
    /\ proc' = [proc EXCEPT ![p] =
                  load_env(fs,
                  [IdleProc EXCEPT !.pc = "dashboard_load", !.cmd = "dashboard"])]
    /\ UNCHANGED <<fs, dirs, nextRun, faults, maxPersisted, maxScore, supplied>>

DashboardLoad(p) ==
    /\ proc[p].pc = "dashboard_load"
    /\ proc' = [proc EXCEPT ![p] =
                  [@ EXCEPT !.pc = "done", !.exit = "ok", !.reported = "dashboard",
                            !.rd = @ \cup {STATS_PATH}]]
    /\ UNCHANGED <<fs, dirs, nextRun, faults, maxPersisted, maxScore, supplied>>

StartInit(p, alias) ==
    /\ CanStart(p)
    /\ proc' = [proc EXCEPT ![p] =
                  load_env(fs,
                  [IdleProc EXCEPT !.pc = "init_load", !.cmd = "init",
                                   !.alias = alias])]
    /\ UNCHANGED <<fs, dirs, nextRun, faults, maxPersisted, maxScore, supplied>>

InitLoad(p) ==
    /\ proc[p].pc = "init_load"
    /\ proc' = [proc EXCEPT ![p] =
                  IF @.alias # None
                  THEN [@ EXCEPT !.pc = "init_save",
                                 !.stats = Some(load_or_create_stats(fs)),
                                 !.rd = @ \cup {STATS_PATH}]
                  ELSE [@ EXCEPT !.pc = "done", !.exit = "ok",
                                 !.reported = "initialized",
                                 !.rd = @ \cup {STATS_PATH}]]
    /\ UNCHANGED <<fs, dirs, nextRun, faults, maxPersisted, maxScore, supplied>>

InitSave(p) ==
    /\ SaveStatsStep(p, "init_save",
                     [proc[p].stats[1] EXCEPT !.builder_alias = proc[p].alias[1]],
                     "init_report")

InitReport(p) ==
    /\ proc[p].pc = "init_report"
    /\ proc' = [proc EXCEPT ![p] =
                  [@ EXCEPT !.pc = "done", !.exit = "ok", !.reported = "initialized",
                            !.stats = None]]
    /\ UNCHANGED <<fs, dirs, nextRun, faults, maxPersisted, maxScore, supplied>>

\* ------------------------------------------------------------------ privy
\* The DIDs create_guest_user can draw ("did:privy:" and 16 random bytes).
Dids == {"did:privy:01", "did:privy:02", "did:privy:03"}

\* The app id PrivyIntegration::new takes from PRIVY_APP_ID, which the head
\* of main sets from ../.env, or else the built-in one.
app_id(files) ==
    IF files[ENV_PATH].st = "ok" /\ files[ENV_PATH].val = "credentials"
    THEN "env_app_id" ELSE "cmbu92bja01jzjx0lgi75sti0"

\* PrivyIntegration::new: the configuration, and no authenticated user.
PrivyIntegration_new(files) ==
    [app_id |-> app_id(files), authenticated_user |-> None]

\* The guest user of create_guest_user, with its embedded wallet.
PrivyUser(did) == [did |-> did, is_guest |-> TRUE, embedded_wallet |-> TRUE]

\* save_auth_state: the authentication response as pretty JSON.
save_auth_state_content(user) == FileOf("auth", "json", user, 0)

\* load_auth_state: read_to_string and serde_json::from_str; an error when
\* the file cannot be read or is no PrivyAuthResponse.
load_auth_state(files) ==
    IF files[PRIVY_AUTH_PATH].st = "ok" /\ files[PRIVY_AUTH_PATH].kind = "auth"
    THEN [err |-> "none", user |-> files[PRIVY_AUTH_PATH].val]
    ELSE [err |-> "not_authenticated"]

\* The integration object of which handle_privy_report asks the report: the
\* result of load_auth_state is matched as Ok(_) and a new object is made.
ReportIntegration(files, loaded) == PrivyIntegration_new(files)

\* get_privacy_report: the entries of the report.
get_privacy_report(privy) ==
    IF privy.authenticated_user # None
    THEN [authentication_method |-> "privy_guest",
          wallet_type |-> "embedded_privy",
          app_id |-> privy.app_id,
          data_collection |-> "minimal",
          kyc_required |-> "false",
          email_required |-> "false",
          phone_required |-> "false",
          recovery_method |-> "privy_managed",
          cross_device_sync |-> "encrypted",
          did |-> privy.authenticated_user[1].did,
          privacy_level |-> "maximum",
          wallet_address |-> privy.authenticated_user[1].embedded_wallet]
    ELSE [status |-> "not_authenticated"]

\* Commands::Privy Auth: handle_privy_auth makes the integration object.
StartPrivyAuth(p) ==
    /\ CanStart(p)
    /\ proc' = [proc EXCEPT ![p] =
                  load_env(fs,
                  [IdleProc EXCEPT !.pc = "privy_auth_create", !.cmd = "privy_auth"])]
    /\ UNCHANGED <<fs, dirs, nextRun, faults, maxPersisted, maxScore, supplied>>

\* initialize_anonymous_auth: the guest user is created and set as the
\* authenticated user of the object.
PrivyAuthCreate(p) ==
    /\ proc[p].pc = "privy_auth_create"
    /\ \E did \in Dids :
         proc' = [proc EXCEPT ![p] =
                    [@ EXCEPT !.pc = "privy_auth_save",
                              !.authenticated_user = Some(PrivyUser(did))]]
    /\ UNCHANGED <<fs, dirs, nextRun, faults, maxPersisted, maxScore, supplied>>

\* initialize_anonymous_auth: save_auth_state writes the state file; when
\* the write fails, main prints the error of the handler and returns Ok.
PrivyAuthSave(p) ==
    /\ proc[p].pc = "privy_auth_save"
    /\ \E outcome \in Allowed(WriteOutcomes) :
         /\ faults' = FaultsAfter(outcome)
         /\ fs' = FsAfterWrite(fs, PRIVY_AUTH_PATH,
                               save_auth_state_content(proc[p].authenticated_user[1]),
                               outcome)
         /\ proc' = [proc EXCEPT ![p] =
                       IF outcome = "ok"
                       THEN [@ EXCEPT !.pc = "done", !.exit = "ok",
                                      !.reported = "privy_auth_complete",
                                      !.wr = @ \cup {PRIVY_AUTH_PATH}]
                       ELSE [@ EXCEPT !.pc = "done", !.exit = "ok",
                                      !.cause = "write",
                                      !.reported = "privy_auth_failed",
                                      !.wr = IF outcome = "write_failed"
                                             THEN @ \cup {PRIVY_AUTH_PATH}
                                             ELSE @]]
    /\ UNCHANGED <<dirs, nextRun, maxPersisted, maxScore, supplied>>

\* Commands::Privy Report.
StartPrivyReport(p) ==
    /\ CanStart(p)
    /\ proc' = [proc EXCEPT ![p] =
                  load_env(fs,
                  [IdleProc EXCEPT !.pc = "privy_report", !.cmd = "privy_report"])]
    /\ UNCHANGED <<fs, dirs, nextRun, faults, maxPersisted, maxScore, supplied>>

\* handle_privy_report: the report is printed when load_auth_state
\* succeeds; otherwise the handler returns the not-authenticated error,
\* which main prints before it returns Ok.
PrivyReport(p) ==
    /\ proc[p].pc = "privy_report"
    /\ LET loaded == load_auth_state(fs)
       IN proc' = [proc EXCEPT ![p] =
                     IF loaded.err = "none"
                     THEN [@ EXCEPT !.pc = "done", !.exit = "ok",
                                    !.report = Some(get_privacy_report(
                                                 ReportIntegration(fs, loaded))),
                                    !.reported = "privacy_report",
                                    !.rd = @ \cup {PRIVY_AUTH_PATH}]
                     ELSE [@ EXCEPT !.pc = "done", !.exit = "ok",
                                    !.cause = "not_authenticated",
                                    !.reported = "privy_report_failed"]]
    /\ UNCHANGED <<fs, dirs, nextRun, faults, maxPersisted, maxScore, supplied>>

\* Commands::Privy Status.
StartPrivyStatus(p) ==
    /\ CanStart(p)
    /\ proc' = [proc EXCEPT ![p] =
                  load_env(fs,
                  [IdleProc EXCEPT !.pc = "privy_status", !.cmd = "privy_status"])]
    /\ UNCHANGED <<fs, dirs, nextRun, faults, maxPersisted, maxScore, supplied>>

\* show_privy_status: the user of the loaded state is printed, or that
\* there is none.
PrivyStatus(p) ==
    /\ proc[p].pc = "privy_status"
    /\ LET loaded == load_auth_state(fs)
       IN proc' = [proc EXCEPT ![p] =
                     IF loaded.err = "none"
                     THEN [@ EXCEPT !.pc = "done", !.exit = "ok",
                                    !.authenticated_user = Some(loaded.user),
                                    !.reported = "authenticated",
                                    !.rd = @ \cup {PRIVY_AUTH_PATH}]
                     ELSE [@ EXCEPT !.pc = "done", !.exit = "ok",
                                    !.reported = "not_authenticated"]]
    /\ UNCHANGED <<fs, dirs, nextRun, faults, maxPersisted, maxScore, supplied>>

\* --------------------------------------------------------------- thirdweb
\* The ids of the templates of create_zk_enabled_templates, and an id that
\* is none of them.
KnownTemplates ==
    {"niet2code-anonymous-nft", "niet2code-private-defi-vault",
     "niet2code-anonymous-dao", "niet2code-private-marketplace"}
Templates == KnownTemplates \cup {"unknown-template"}

\* Network names, as the sequence of their parts.
Networks ==
    {<<"mantle", "-testnet">>, <<"mantle">>, <<"mantle", "-sepolia">>,
     <<"my-", "mantle">>, <<"polygon">>, <<"ethereum">>, <<"base">>}

\* The category of a template of create_zk_enabled_templates.
template_category(id) ==
    CASE id = "niet2code-anonymous-nft" -> "NFT"
      [] id = "niet2code-private-defi-vault" -> "DeFi"
      [] id = "niet2code-anonymous-dao" -> "Governance"
      [] id = "niet2code-private-marketplace" -> "Marketplace"

\* (gas as f64 * multiplier) as u64, with the multiplier in tenths.  The
\* products of the base costs and the multipliers 0.1, 0.4, 0.5 and 1.0 are
\* whole numbers, which the cast keeps.
ScaleGas(gas, tenths) == (gas * tenths) \div 10

\* network.contains("mantle")
ContainsMantle(network) == \E i \in 1..Len(network) : network[i] = "mantle"

\* ThirdWebCommands::EstimateCost: the gas figure the CLI prints.
cli_estimate_cost(template, network) ==
    LET estimated_gas ==
            CASE template = "niet2code-anonymous-nft" -> 2000000
              [] template = "niet2code-private-defi-vault" -> 3500000
              [] template = "niet2code-anonymous-dao" -> 4000000
              [] template = "niet2code-private-marketplace" -> 5000000
              [] OTHER -> 2500000
        network_multiplier == IF ContainsMantle(network) THEN 4 ELSE 10
    IN ScaleGas(estimated_gas, network_multiplier)

\* ThirdWebIntegration::estimate_deployment_cost: an error when the
\* template is not found, or else the gas figure.
estimate_deployment_cost(template_id, network) ==
    IF template_id \notin KnownTemplates
    THEN [err |-> "template_not_found"]
    ELSE LET category == template_category(template_id)
             base_cost ==
                 CASE category = "NFT" -> 2000000
                   [] category = "DeFi" -> 3500000
                   [] category = "Governance" -> 4000000
                   [] category = "Marketplace" -> 5000000
                   [] OTHER -> 2500000
             network_multiplier ==
                 CASE network \in {<<"mantle", "-testnet">>, <<"mantle">>} -> 4
                   [] network = <<"polygon">> -> 1
                   [] network = <<"ethereum">> -> 10
                   [] OTHER -> 5
         IN [err |-> "none", val |-> ScaleGas(base_cost, network_multiplier)]

\* thirdweb estimate-cost: the figure is computed and printed.
EstimateCost(p) ==
    /\ proc[p].cmd = "thirdweb"
    /\ proc[p].final_cost = None
    /\ proc' = [proc EXCEPT ![p] =
                  [@ EXCEPT !.final_cost =
                      Some(cli_estimate_cost(proc[p].template,
                                             proc[p].network_name))]]
    /\ UNCHANGED <<fs, dirs, nextRun, faults, maxPersisted, maxScore, supplied>>

\* thirdweb deploy: deploy_template asks the estimate and prints it before
\* it deploys, or returns the error.
DeployEstimate(p) ==
    /\ proc[p].cmd = "thirdweb"
    /\ proc[p].estimated_cost = None
    /\ proc' = [proc EXCEPT ![p] =
                  [@ EXCEPT !.estimated_cost =
                      Some(estimate_deployment_cost(proc[p].template,
                                                    proc[p].network_name))]]
    /\ UNCHANGED <<fs, dirs, nextRun, faults, maxPersisted, maxScore, supplied>>

\* ------------------------------------------------------------------- next
\* A step of a prove, init, verify or dashboard invocation in process p;
\* maxRuns bounds the prove invocations.
ProveStep(p, maxRuns) ==
    \/ \E args \in ProveArgs : StartProve(p, args, maxRuns)
    \/ ProveCheck(p)
    \/ ProveSetup(p)
    \/ ProveCreate(p)
    \/ ProveMkdirProofs(p)
    \/ ProveMkdirKeys(p)
    \/ ProveSaveCalldata(p)
    \/ ProveSaveProof(p)
    \/ ProveSavePublicInput(p)
    \/ ProveSaveVerifyingKey(p)
    \/ ProveExportVk(p)
    \/ ProveStatsLoad(p)
    \/ ProveStatsSave(p)
    \/ ProveReport(p)

VerifyStep(p) ==
    \/ \E input \in VerifyInputs : StartVerify(p, input)
    \/ VerifyReadProof(p)
    \/ VerifyReadInput(p)
    \/ VerifyReadVk(p)
    \/ VerifyCheck(p)
    \/ VerifyReport(p)

DashboardStep(p) ==
    \/ StartDashboard(p)
    \/ DashboardLoad(p)

InitStep(p) ==
    \/ \E alias \in Aliases : StartInit(p, alias)
    \/ InitLoad(p)
    \/ InitSave(p)
    \/ InitReport(p)

\* Invocations one after another.
Next ==
    \/ ProveStep("p1", MaxRuns)
    \/ VerifyStep("p1")
    \/ DashboardStep("p1")
    \/ InitStep("p1")
    \/ \E path \in {PROOF_PATH, INPUT_PATH, VK_BIN_PATH} : Tamper(path)

Spec == Init /\ [][Next]_vars

\* Prove invocations only, one after another.
NextProve == ProveStep("p1", MaxRuns)

SpecProve == Init /\ [][NextProve]_vars

\* A step of a privy auth, report or status invocation in process p.
PrivyStep(p) ==
    \/ StartPrivyAuth(p)
    \/ PrivyAuthCreate(p)
    \/ PrivyAuthSave(p)
    \/ StartPrivyReport(p)
    \/ PrivyReport(p)
    \/ StartPrivyStatus(p)
    \/ PrivyStatus(p)

\* Privy invocations one after another, in a directory whose ../.env
\* changes.
NextPrivy ==
    \/ PrivyStep("p1")
    \/ \E content \in EnvFiles \cup {Absent} : EditEnv(content)

SpecPrivy == Init /\ [][NextPrivy]_vars

\* The two cost estimates, asked for one template and one network.
InitCost ==
    /\ fs = [path \in Paths |->
               IF path = USER_INPUT_PATH THEN UserInputFile ELSE Absent]
    /\ dirs = {}
    /\ \E template \in Templates, network \in Networks :
         proc = [p \in Procs |->
                   IF p = "p1"
                   THEN [IdleProc EXCEPT !.cmd = "thirdweb",
                                         !.template = template,
                                         !.network_name = network]
                   ELSE IdleProc]
    /\ nextRun = 1
    /\ faults = 0
    /\ maxPersisted = 0
    /\ maxScore = 0
    /\ supplied = {}

NextCost ==
    \/ EstimateCost("p1")
    \/ DeployEstimate("p1")

SpecCost == InitCost /\ [][NextCost]_vars

\* Invocations one after another in a directory whose ../.env changes.
NextEnv ==
    \/ Next
    \/ \E content \in EnvFiles \cup {Absent} : EditEnv(content)

SpecEnv == Init /\ [][NextEnv]_vars

\* Two concurrent invocations of the commands that write files.
NextConc ==
    \E p \in Procs :
        \/ ProveStep(p, MaxConcRuns)
        \/ InitStep(p)

SpecConc == Init /\ [][NextConc]_vars

\* ================================================================= claims
ProveRun(p) == proc[p].cmd = "prove"
VerifyRun(p) == proc[p].cmd = "verify"
Done(p) == proc[p].pc = "done"
Running(p) == proc[p].pc \notin {"idle", "done"}

\* The proof, public-input and verifying-key files at the fixed paths are
\* as one prove run wrote them.
ArtifactsOfOneRun ==
    /\ fs[PROOF_PATH].st = "ok" /\ fs[INPUT_PATH].st = "ok" /\ fs[VK_BIN_PATH].st = "ok"
    /\ ~fs[PROOF_PATH].mut /\ ~fs[INPUT_PATH].mut /\ ~fs[VK_BIN_PATH].mut
    /\ fs[PROOF_PATH].run = fs[INPUT_PATH].run
    /\ fs[PROOF_PATH].run = fs[VK_BIN_PATH].run

\* The five files a prove run writes before the stats update.
ArtifactPaths(p) == {proc[p].out, PROOF_PATH, INPUT_PATH, VK_BIN_PATH, VK_RS_PATH}

\* C1: round trip.  A verify run on the proof, public-input and
\* verifying-key files written by one prove run ends successfully with
\* valid = true, reported as PASSED.
C1_RoundTrip ==
    \A p \in Procs :
        (VerifyRun(p) /\ Done(p) /\ proc[p].input = INPUT_PATH /\ ArtifactsOfOneRun)
            => /\ proc[p].exit = "ok"
               /\ proc[p].valid = Some(TRUE)
               /\ proc[p].reported = "PASSED"

\* A verify run has passed on the artifacts of prove --a 2 --b 4 --c 8.
C1_Witness ==
    \E p \in Procs :
        /\ VerifyRun(p) /\ Done(p) /\ proc[p].input = INPUT_PATH /\ ArtifactsOfOneRun
        /\ fs[INPUT_PATH].val = 8
        /\ proc[p].reported = "PASSED"

\* C2: witness correction.  A prove run whose c differs from a*b does not
\* fail at the mismatch check; its witness and the public input it saves
\* use the product a*b, so its proof verifies against a*b and not against
\* the caller's c.
C2_WitnessCorrection ==
    \A p \in Procs :
        (ProveRun(p) /\ proc[p].pc # "prove_check" /\ proc[p].c # proc[p].a * proc[p].b)
            => /\ proc[p].cause # "overflow"
               /\ proc[p].c_fr = Fr_from(proc[p].a * proc[p].b)
               /\ proc[p].proof # None =>
                    LET pvk == prepare_verifying_key(proc[p].params[1].vk)
                    IN /\ proc[p].proof[1].pub = Fr_from(proc[p].a * proc[p].b)
                       /\ verify_proof(pvk, proc[p].proof[1],
                                       <<Fr_from(proc[p].a * proc[p].b)>>).valid
                       /\ ~verify_proof(pvk, proc[p].proof[1],
                                        <<Fr_from(proc[p].c)>>).valid
               /\ (fs[INPUT_PATH].st = "ok" /\ fs[INPUT_PATH].run = proc[p].run)
                    => fs[INPUT_PATH].val = Fr_from(proc[p].a * proc[p].b)

\* C3: the mismatch check never ends the run, and the warning is emitted
\* exactly when the caller's c differs from the product that is proved.
C3_WarningIffMismatch ==
    \A p \in Procs :
        (ProveRun(p) /\ proc[p].pc # "prove_check")
            => /\ proc[p].cause # "overflow"
               /\ proc[p].warned <=> (Fr_from(proc[p].c) # proc[p].c_fr)

\* C4: a verify run that reads a proof and the verifying key of the same
\* prove run, and a public input different from the one the proof was made
\* for, gets valid = false and reports FAILED.
C4_WrongInputFails ==
    \A p \in Procs :
        (/\ VerifyRun(p) /\ proc[p].pc \in {"verify_report", "done"}
         /\ proc[p].rproof # None /\ proc[p].rinput # None /\ proc[p].rvk # None
         /\ proc[p].rproof[1].run = proc[p].rvk[1].run
         /\ proc[p].rinput[1].val # proc[p].rproof[1].val.pub)
            => /\ proc[p].valid = Some(FALSE)
               /\ Done(p) => proc[p].reported = "FAILED"

\* A verify run has ended on a proof and key of one run and another input.
C4_Witness ==
    \E p \in Procs :
        /\ VerifyRun(p) /\ Done(p)
        /\ proc[p].rproof # None /\ proc[p].rinput # None /\ proc[p].rvk # None
        /\ proc[p].rproof[1].run = proc[p].rvk[1].run
        /\ proc[p].rinput[1].val # proc[p].rproof[1].val.pub
        /\ proc[p].reported = "FAILED"

\* C5: key binding.  A verify run that reads a proof of one prove run and
\* the verifying key of another prove run never gets valid = true and never
\* reports PASSED.
C5_KeyBinding ==
    \A p \in Procs :
        (/\ VerifyRun(p)
         /\ proc[p].rproof # None /\ proc[p].rvk # None
         /\ proc[p].rproof[1].run # proc[p].rvk[1].run)
            => /\ proc[p].valid # Some(TRUE)
               /\ proc[p].reported # "PASSED"

\* A verify run has failed on a proof and a key of two prove runs although
\* the public input is the one the proof was made for.
C5_Witness ==
    \E p \in Procs :
        /\ VerifyRun(p) /\ Done(p)
        /\ proc[p].rproof # None /\ proc[p].rinput # None /\ proc[p].rvk # None
        /\ proc[p].rproof[1].run # proc[p].rvk[1].run
        /\ proc[p].rinput[1].val = proc[p].rproof[1].val.pub
        /\ proc[p].valid = Some(FALSE)
        /\ proc[p].reported = "FAILED"

\* C6: a verify run whose check returned valid = false ends successfully
\* and reports FAILED; a verify run ends with an error only for a file,
\* deserialization or verification-procedure failure.
C6_InvalidIsNotAnError ==
    \A p \in Procs :
        (VerifyRun(p) /\ Done(p))
            => /\ proc[p].valid = Some(FALSE)
                    => (proc[p].exit = "ok" /\ proc[p].reported = "FAILED")
               /\ proc[p].exit = "err"
                    => proc[p].cause \in {"file", "deserialize", "verify"}

\* A verify run has ended successfully with valid = false.
C6_Witness ==
    \E p \in Procs :
        /\ VerifyRun(p) /\ Done(p)
        /\ proc[p].valid = Some(FALSE)
        /\ proc[p].exit = "ok"

\* C7: update_stats_for_proof is invoked at most once per invocation, only
\* by prove, only after all five artifact writes of the run have succeeded,
\* exactly once in a prove run that got past its artifact writes, and never
\* in a run where the check, setup, proving, a directory or an artifact
\* write failed.
C7_StatsOncePerProof ==
    \A p \in Procs :
        /\ proc[p].statsCalls <= 1
        /\ ~ProveRun(p) => proc[p].statsCalls = 0
        /\ proc[p].statsCalls = 1
             => /\ ArtifactPaths(p) \subseteq proc[p].wr
                /\ proc[p].cause \notin {"overflow", "setup", "prove", "mkdir", "write"}
        /\ (ProveRun(p) /\ Done(p) /\ proc[p].exit = "ok") => proc[p].statsCalls = 1
        /\ (ProveRun(p) /\ proc[p].cause \in {"overflow", "setup", "prove", "mkdir", "write"})
             => proc[p].statsCalls = 0

\* A prove run has written its artifacts, updated the stats and ended.
C7_Witness ==
    \E p \in Procs :
        /\ ProveRun(p) /\ Done(p) /\ proc[p].exit = "ok"
        /\ proc[p].statsCalls = 1
        /\ ArtifactPaths(p) \subseteq proc[p].wr

\* C8: a prove run that generated its proof, wrote its artifacts and invoked
\* the stats update ends successfully and reports success, also when the
\* stats update fails.
C8_StatsFailureNonFatal ==
    \A p \in Procs :
        (ProveRun(p) /\ Done(p) /\ proc[p].statsCalls = 1)
            => (proc[p].exit = "ok" /\ proc[p].reported = "success")

\* C9: the persisted proofs_generated is never lower than a value persisted
\* before it.
C9_CounterMonotonic ==
    fs[STATS_PATH].st = "ok" => fs[STATS_PATH].val.proofs_generated >= maxPersisted

\* C10: two prove runs in progress at the same time with distinct calldata
\* output paths share no file: none is written by one and read or written
\* by the other.
C10_NoSharedFiles ==
    \A p, q \in Procs :
        (/\ p # q /\ ProveRun(p) /\ ProveRun(q) /\ Running(p) /\ Running(q)
         /\ proc[p].out # proc[q].out)
            => proc[p].wr \cap (proc[q].rd \cup proc[q].wr) = {}


\* The artifact write at each statement of Commands::Prove: its path and
\* the content it writes.
WritePcs ==
    {"prove_save_calldata", "prove_save_proof", "prove_save_input",
     "prove_save_vk", "prove_export_vk"}

ProveWritePath(rec, pc) ==
    CASE pc = "prove_save_calldata" -> rec.out
      [] pc = "prove_save_proof" -> PROOF_PATH
      [] pc = "prove_save_input" -> INPUT_PATH
      [] pc = "prove_save_vk" -> VK_BIN_PATH
      [] OTHER -> VK_RS_PATH

ProveWriteContent(rec, pc) ==
    CASE pc = "prove_save_calldata" -> save_calldata_content(rec.proof[1], rec.c_fr, rec.run)
      [] pc = "prove_save_proof" -> save_proof_content(rec.proof[1], rec.run)
      [] pc = "prove_save_input" -> save_public_input_content(rec.c_fr, rec.run)
      [] pc = "prove_save_vk" -> save_verifying_key_content(rec.params[1].vk, rec.run)
      [] OTHER -> export_verifying_key_content(rec.params[1].vk, rec.run)

ArtifactFiles == {PROOF_PATH, INPUT_PATH, VK_BIN_PATH, VK_RS_PATH} \cup Outs

\* A step in which process p completes the write of its statement pc.
WroteAt(p, pc) == proc[p].pc = pc /\ proc'[p].pc = ProveNextPc(pc)

Missing(file) == file.st = "absent"
Truncated(file) == file.st = "trunc"
Malformed(file, kind, variant) ==
    file.st = "ok" /\ (file.kind # kind \/ (kind # "fr" /\ file.variant # variant))
BadInput(file, kind, variant) ==
    Missing(file) \/ Truncated(file) \/ Malformed(file, kind, variant)
VerifyInputBad(p) ==
    \/ BadInput(fs[PROOF_PATH], "proof", "compressed")
    \/ BadInput(fs[proc[p].input], "fr", "uncompressed")
    \/ BadInput(fs[VK_BIN_PATH], "vk", "uncompressed")

\* C12: in verify, the verification check is invoked only when the proof,
\* the public input and the verifying key were all deserialized and none of
\* the three files is missing, malformed or truncated; a verify run on a
\* missing, malformed or truncated file ends with a file or
\* deserialization error and without a verification result.
C12_DeserializeBeforeCheck ==
    [][\A p \in Procs :
         /\ (proc[p].pc = "verify_check" /\ proc'[p] # proc[p])
              => /\ ~VerifyInputBad(p)
                 /\ proc[p].rproof # None /\ proc[p].rinput # None
                 /\ proc[p].rvk # None
         /\ (VerifyRun(p) /\ Running(p) /\ Done(p)' /\ VerifyInputBad(p))
              => /\ proc'[p].exit = "err"
                 /\ proc'[p].cause \in {"file", "deserialize"}
                 /\ proc'[p].valid = None /\ proc'[p].reported = "none"]_vars

\* A verify run read the proof and the public input, found the verifying
\* key malformed and ended with a deserialization error.
C12_Witness ==
    /\ VerifyRun("p1") /\ Done("p1")
    /\ Malformed(fs[VK_BIN_PATH], "vk", "uncompressed")
    /\ proc["p1"].rproof # None /\ proc["p1"].rinput # None
    /\ proc["p1"].rvk = None /\ proc["p1"].valid = None
    /\ proc["p1"].exit = "err" /\ proc["p1"].cause = "deserialize"

\* What a prove run with arguments a and b computes: the product in the
\* field, the key pair of its own setup and the proof made with that pair.
RunProduct(rec) == Fr_mul(Fr_from(rec.a), Fr_from(rec.b))
RunKeys(rec) == generate_random_parameters(setup_circuit, thread_rng(rec.run))
RunProof(rec) ==
    create_random_proof(
        MulCircuit(Some(Fr_from(rec.a)), Some(Fr_from(rec.b)), Some(RunProduct(rec))),
        RunKeys(rec))
ReportsSuccess(p) ==
    ProveRun(p) /\ Running(p) /\ Done(p)' /\ proc'[p].exit = "ok"

\* C14: when a prove run reports success, the calldata file at the output
\* path of the caller and the proof, public-input and verifying-key files
\* at the fixed paths hold what this run wrote: the calldata and the proof
\* of this run's proof, the product a*b and the verifying key of this run's
\* setup.
C14_SuccessWroteArtifacts ==
    [][\A p \in Procs :
         ReportsSuccess(p) =>
           LET rec == proc[p]
           IN /\ rec.proof = Some(RunProof(rec))
              /\ fs'[rec.out] =
                    save_calldata_content(RunProof(rec), RunProduct(rec), rec.run)
              /\ fs'[PROOF_PATH] = save_proof_content(RunProof(rec), rec.run)
              /\ fs'[INPUT_PATH] =
                    save_public_input_content(RunProduct(rec), rec.run)
              /\ fs'[VK_BIN_PATH] =
                    save_verifying_key_content(RunKeys(rec).vk, rec.run)
              /\ {rec.out, PROOF_PATH, INPUT_PATH, VK_BIN_PATH} \subseteq rec.wr]_vars

\* The second prove run, called with 3, 4 and the mismatching c = 8, has
\* reported success and the four files are its own, the public input 12.
C14_Witness ==
    /\ ProveRun("p1") /\ Done("p1") /\ proc["p1"].reported = "success"
    /\ proc["p1"].run = 2 /\ proc["p1"].a = 3 /\ proc["p1"].c = 8
    /\ fs[proc["p1"].out] =
          save_calldata_content(RunProof(proc["p1"]), 12, 2)
    /\ fs[PROOF_PATH] = save_proof_content(RunProof(proc["p1"]), 2)
    /\ fs[INPUT_PATH] = save_public_input_content(12, 2)
    /\ fs[VK_BIN_PATH] = save_verifying_key_content(RunKeys(proc["p1"]).vk, 2)

\* The files in which a prove run leaves key material or a proof.
KeyFiles == {VK_BIN_PATH, VK_RS_PATH}
AfterSetupPcs ==
    {"prove_create", "prove_mkdir_proofs", "prove_mkdir_keys"} \cup WritePcs
        \cup {"prove_stats_load", "prove_stats_save", "prove_report"}

\* C15: every prove run runs setup itself before it generates its proof,
\* the proof is made with the key pair of that setup, that key pair is not
\* the one any other run left in the key files, and a prove run reads none
\* of the artifact files.
C15_FreshKeysPerRun ==
    \A p \in Procs :
        ProveRun(p) =>
          /\ proc[p].rd \cap (ArtifactFiles \cup KeyFiles) = {}
          /\ (proc[p].pc \in AfterSetupPcs \/ proc[p].reported = "success")
                => proc[p].params # None
          /\ proc[p].proof # None
                => /\ proc[p].params # None
                   /\ proc[p].proof[1].key = proc[p].params[1].pk
          /\ proc[p].params # None
                => \A path \in KeyFiles :
                     (fs[path].st = "ok" /\ fs[path].run # proc[p].run)
                        => fs[path].val # proc[p].params[1].vk

\* The second prove run has made its proof with the key pair of its own
\* setup while the key file still holds the key of the first run.
C15_Witness ==
    /\ ProveRun("p1") /\ proc["p1"].run = 2 /\ proc["p1"].pc = "prove_save_vk"
    /\ fs[VK_BIN_PATH].st = "ok" /\ fs[VK_BIN_PATH].run = 1
    /\ ~fs[VK_BIN_PATH].mut
    /\ proc["p1"].proof # None /\ proc["p1"].proof[1].key = thread_rng(2)
    /\ fs[VK_BIN_PATH].val # proc["p1"].proof[1].key

IsUnassigned(circuit) == circuit.a = None /\ circuit.b = None /\ circuit.c = None
IsAssigned(circuit) == circuit.a # None /\ circuit.b # None /\ circuit.c # None

\* C16: in every prove run the first circuit instance used is the one of
\* setup, with a, b and c absent, and the second the one of the prover, with
\* a and b the arguments of the caller and c their product; no other
\* instance is used, the proof is made from a satisfied witness, and proof
\* generation fails only when the library call itself fails.
C16_CircuitInstances ==
    \A p \in Procs :
        ProveRun(p) =>
          LET used == proc[p].circuits
          IN /\ Len(used) <= 2
             /\ \A i \in 1..Len(used) : IsUnassigned(used[i]) \/ IsAssigned(used[i])
             /\ Len(used) >= 1 => IsUnassigned(used[1])
             /\ Len(used) = 2
                  => /\ IsAssigned(used[2])
                     /\ used[2].a[1] = Fr_from(proc[p].a)
                     /\ used[2].b[1] = Fr_from(proc[p].b)
                     /\ used[2].c[1] = Fr_mul(used[2].a[1], used[2].b[1])
             /\ proc[p].params # None => Len(used) >= 1
             /\ proc[p].proof # None => (Len(used) = 2 /\ proc[p].proof[1].sat)
             /\ proc[p].cause = "prove" => faults > 0

\* A prove run called with 3, 4 and the mismatching c = 8 has run setup on
\* the unassigned instance and the prover on the instance with c = 12.
C16_Witness ==
    /\ ProveRun("p1") /\ proc["p1"].a = 3 /\ proc["p1"].b = 4 /\ proc["p1"].c = 8
    /\ Len(proc["p1"].circuits) = 2
    /\ IsUnassigned(proc["p1"].circuits[1])
    /\ proc["p1"].circuits[2] = MulCircuit(Some(3), Some(4), Some(12))
    /\ proc["p1"].proof # None /\ proc["p1"].proof[1].sat

\* The steps of prove and of verify in program order.
ProveOrder ==
    <<"prove_check", "prove_setup", "prove_create", "prove_mkdir_proofs",
      "prove_mkdir_keys", "prove_save_calldata", "prove_save_proof",
      "prove_save_input", "prove_save_vk", "prove_export_vk",
      "prove_stats_load", "prove_stats_save", "prove_report", "done">>
VerifyOrder ==
    <<"verify_read_proof", "verify_read_input", "verify_read_vk",
      "verify_check", "verify_report", "done">>
StepOrder(rec) == IF rec.cmd = "prove" THEN ProveOrder ELSE VerifyOrder
Rank(rec) ==
    CHOOSE i \in 1..Len(StepOrder(rec)) : StepOrder(rec)[i] = rec.pc

\* C17: no retries.  Every step of a running prove or verify invocation
\* leaves the step behind for a later one, so that setup, proof generation,
\* each artifact write, each input read and the verification check are each
\* attempted at most once; a step whose call fails ends the invocation at
\* once with an error, and an invocation that goes on had no failure.
C17_NoRetries ==
    [][\A p \in Procs :
         (Running(p) /\ (ProveRun(p) \/ VerifyRun(p)))
           => /\ proc'[p] # proc[p]
                   => /\ proc'[p].cmd = proc[p].cmd
                      /\ Rank(proc'[p]) > Rank(proc[p])
              /\ faults' > faults
                   => /\ Done(p)' /\ proc'[p].exit = "err"
                      /\ proc'[p].cause \in {"setup", "prove", "mkdir", "write", "stats"}
              /\ (proc'[p] # proc[p] /\ ~Done(p)')
                   => /\ proc[p].pc = "verify_read_proof"
                         => ~BadInput(fs[PROOF_PATH], "proof", "compressed")
                      /\ proc[p].pc = "verify_read_input"
                         => ~BadInput(fs[proc[p].input], "fr", "uncompressed")
                      /\ proc[p].pc = "verify_read_vk"
                         => ~BadInput(fs[VK_BIN_PATH], "vk", "uncompressed")
              /\ (Done(p)' /\ proc'[p].exit = "err")
                   => proc'[p].reported = "none"]_vars

\* The write of the proof file failed after the calldata was written: the
\* prove run ended with an error and wrote no later artifact.
C17_Witness ==
    /\ ProveRun("p1") /\ Done("p1")
    /\ proc["p1"].exit = "err" /\ proc["p1"].cause = "write"
    /\ fs[PROOF_PATH] = Trunc
    /\ proc["p1"].out \in proc["p1"].wr
    /\ proc["p1"].wr \cap {INPUT_PATH, VK_BIN_PATH, VK_RS_PATH, STATS_PATH} = {}
    /\ faults = 1

\* C18: the outcome of prove and of verify does not depend on the state of
\* the collaborators: no prove or verify invocation ends because of what
\* the file with the collaborators' credentials holds.
C18_IndependentOfCollaborators ==
    \A p \in Procs :
        (ProveRun(p) \/ VerifyRun(p)) => proc[p].cause # "env"

Decoded(val, run) == [err |-> "none", val |-> val, run |-> run]

\* C19: the proof file that prove writes is in the compressed variant and
\* the reader of verify for it decodes it to the proof that was saved; the
\* public-input and verifying-key files are in the uncompressed variant and
\* their readers decode them to the field element and the verifying key
\* that were saved.
C19_DecoderMatchesEncoding ==
    [][\A p \in Procs :
         /\ WroteAt(p, "prove_save_proof")
              => /\ fs'[PROOF_PATH].variant = "compressed"
                 /\ DeserializeProof(fs'[PROOF_PATH])
                      = Decoded(proc[p].proof[1], proc[p].run)
         /\ WroteAt(p, "prove_save_input")
              => /\ fs'[INPUT_PATH].variant = "uncompressed"
                 /\ DeserializeInput(fs'[INPUT_PATH])
                      = Decoded(proc[p].c_fr, proc[p].run)
         /\ WroteAt(p, "prove_save_vk")
              => /\ fs'[VK_BIN_PATH].variant = "uncompressed"
                 /\ DeserializeVk(fs'[VK_BIN_PATH])
                      = Decoded(proc[p].params[1].vk, proc[p].run)
         /\ (VerifyRun(p) /\ proc[p].pc = "verify_read_vk" /\ proc'[p] # proc[p]
                /\ fs[VK_BIN_PATH].st = "ok" /\ ~fs[VK_BIN_PATH].mut)
              => proc'[p].rvk = Some(Decoded(fs[VK_BIN_PATH].val, fs[VK_BIN_PATH].run))
         /\ (VerifyRun(p) /\ proc[p].pc = "verify_read_proof" /\ proc'[p] # proc[p]
                /\ fs[PROOF_PATH].st = "ok" /\ ~fs[PROOF_PATH].mut)
              => proc'[p].rproof = Some(Decoded(fs[PROOF_PATH].val, fs[PROOF_PATH].run))
         /\ (VerifyRun(p) /\ proc[p].pc = "verify_read_input" /\ proc'[p] # proc[p]
                /\ fs[INPUT_PATH].st = "ok" /\ ~fs[INPUT_PATH].mut
                /\ proc[p].input = INPUT_PATH)
              => proc'[p].rinput = Some(Decoded(fs[INPUT_PATH].val, fs[INPUT_PATH].run))]_vars

\* A verify run has decoded the three files that the second prove run,
\* called with 3 and 4, wrote: its proof, the field element 12 and its
\* verifying key.
C19_Witness ==
    /\ VerifyRun("p1") /\ proc["p1"].pc = "verify_check"
    /\ fs[PROOF_PATH] = save_proof_content(proc["p1"].rproof[1].val, 2)
    /\ fs[INPUT_PATH] = save_public_input_content(12, 2)
    /\ fs[VK_BIN_PATH] = save_verifying_key_content(thread_rng(2), 2)
    /\ proc["p1"].rproof[1].val.key = thread_rng(2)
    /\ proc["p1"].rinput[1].val = 12
    /\ proc["p1"].rvk[1].val = thread_rng(2)

\* The proof, public-input and verifying-key files come from one prove run,
\* verify run p reads them, and one byte of the proof file or of the
\* public-input file was changed since they were written.
OneByteChanged(p) ==
    /\ proc[p].input = INPUT_PATH
    /\ fs[PROOF_PATH].st = "ok" /\ fs[INPUT_PATH].st = "ok" /\ fs[VK_BIN_PATH].st = "ok"
    /\ fs[PROOF_PATH].run = fs[INPUT_PATH].run
    /\ fs[PROOF_PATH].run = fs[VK_BIN_PATH].run
    /\ fs[PROOF_PATH].mut \/ fs[INPUT_PATH].mut

\* C20: a verify run on the files of one prove run, after one byte of the
\* proof file or of the public-input file was changed, ends with
\* valid = false, reported as FAILED, or with a deserialization error; it
\* never reports PASSED.
C20_MutationNeverVerifies ==
    [][\A p \in Procs :
         (VerifyRun(p) /\ Running(p) /\ Done(p)' /\ OneByteChanged(p))
           => /\ proc'[p].reported # "PASSED"
              /\ proc'[p].valid # Some(TRUE)
              /\ \/ proc'[p].valid = Some(FALSE) /\ proc'[p].reported = "FAILED"
                 \/ proc'[p].exit = "err" /\ proc'[p].cause = "deserialize"]_vars

\* A verify run has decoded a proof file with one byte changed and ended
\* with valid = false.
C20_Witness ==
    /\ VerifyRun("p1") /\ Done("p1") /\ OneByteChanged("p1")
    /\ fs[PROOF_PATH].mut /\ fs[PROOF_PATH].kind = "proof"
    /\ ~fs[INPUT_PATH].mut /\ ~fs[VK_BIN_PATH].mut
    /\ proc["p1"].rproof # None /\ proc["p1"].rproof[1].val = fs[PROOF_PATH].val
    /\ proc["p1"].valid = Some(FALSE) /\ proc["p1"].reported = "FAILED"

MkdirPcs == {"prove_mkdir_proofs", "prove_mkdir_keys"}

\* C21: pipeline order.  In every prove run the prover is called only after
\* setup has returned the key pair, and a directory is created or a file
\* written only after the prover has returned the proof; every step of the
\* run is taken by the run itself, one step after the other.
C21_PipelineOrder ==
    [][\A p \in Procs :
         (ProveRun(p) /\ Running(p))
           => /\ proc[p].pc = "prove_create"
                   => (proc[p].params # None /\ Len(proc[p].circuits) = 1)
              /\ proc[p].pc \in MkdirPcs \cup WritePcs
                   => (proc[p].params # None /\ proc[p].proof # None)
              /\ (dirs' # dirs \/ fs' # fs)
                   => (proc[p].params # None /\ proc[p].proof # None
                         /\ Len(proc[p].circuits) = 2)
              /\ proc'[p] # proc[p] => Rank(proc'[p]) > Rank(proc[p])]_vars

\* The first prove run has its key pair and its proof; no directory and no
\* file exists yet.
C21_Witness ==
    /\ ProveRun("p1") /\ proc["p1"].pc = "prove_mkdir_proofs"
    /\ proc["p1"].params # None /\ proc["p1"].proof # None
    /\ dirs = {}
    /\ \A path \in ArtifactFiles \cup {STATS_PATH} : fs[path] = Absent

FailedBeforeProof(p) ==
    ProveRun(p) /\ Done(p) /\ proc[p].cause \in {"setup", "prove"}

\* C22: a prove run in which setup or proof generation fails leaves the
\* file system as it found it: until the run has its proof, none of its
\* steps creates a directory or creates, overwrites or truncates a file,
\* the stats file included, and a run that failed in setup or in proof
\* generation never had a proof.
C22_FailureBeforeWriteLeavesFs ==
    /\ [][\A p \in Procs :
            (ProveRun(p) /\ Running(p) /\ proc[p].proof = None)
              => (fs' = fs /\ dirs' = dirs)]_vars
    /\ [](\A p \in Procs :
            FailedBeforeProof(p)
              => (proc[p].proof = None /\ proc[p].wr = {}
                    /\ proc[p].statsCalls = 0))

\* Proof generation failed in the second prove run; the artifact files and
\* the stats file are still those of the first run.
C22_Witness ==
    /\ FailedBeforeProof("p1") /\ proc["p1"].cause = "prove" /\ proc["p1"].run = 2
    /\ \A path \in {PROOF_PATH, INPUT_PATH, VK_BIN_PATH, VK_RS_PATH, STATS_PATH} :
         fs[path].st = "ok" /\ fs[path].run = 1
    /\ fs[STATS_PATH].val.proofs_generated = 1

NoProveInProgress == \A p \in Procs : ~(ProveRun(p) /\ Running(p))
FixedArtifacts == {PROOF_PATH, INPUT_PATH, VK_BIN_PATH}

\* C23: consistent artifact set.  Whenever no prove run is in progress and
\* a prove run has touched one of the proof, public-input and
\* verifying-key files, all three hold content and it was written by one
\* and the same prove run; a verify run on them as they were written
\* passes.
C23_ConsistentArtifactSet ==
    NoProveInProgress =>
      /\ (\E path \in FixedArtifacts : fs[path] # Absent)
            => /\ \A path \in FixedArtifacts : fs[path].st = "ok"
               /\ fs[PROOF_PATH].run = fs[INPUT_PATH].run
               /\ fs[PROOF_PATH].run = fs[VK_BIN_PATH].run
      /\ \A p \in Procs :
            (VerifyRun(p) /\ Done(p) /\ proc[p].input = INPUT_PATH
               /\ \A path \in FixedArtifacts : fs[path].st = "ok" /\ ~fs[path].mut)
              => proc[p].reported = "PASSED"

BothProvesSucceeded ==
    \A p \in Procs : ProveRun(p) /\ Done(p) /\ proc[p].exit = "ok"

\* C24: no lost update.  When two prove runs that ran concurrently, the
\* only two since the stats file was absent or held proofs_generated = 0,
\* have both succeeded, the persisted proofs_generated is 2.
C24_NoLostUpdate ==
    BothProvesSucceeded
      => /\ fs[STATS_PATH].st = "ok"
         /\ fs[STATS_PATH].val.proofs_generated = 2

\* The score that update_stats_for_proof derives from a stats record.
DerivedScore(stats) ==
    Min(8 * stats.proofs_generated + 15 * Len(stats.networks)
          + 10 * stats.deployments, 100)

\* C25: derived score.  The privacy_score a stats update for a proof
\* persists is the minimum of 100 and 8 * proofs_generated + 15 * (number
\* of networks) + 10 * deployments of the record it persists, lies between
\* 0 and 100 and is not lower than any score persisted before it.
C25_DerivedScore ==
    [][\A p \in Procs :
         (ProveRun(p) /\ proc[p].pc = "prove_stats_save"
            /\ proc'[p].pc = ProveNextPc("prove_stats_save"))
           => /\ fs'[STATS_PATH].st = "ok"
              /\ fs'[STATS_PATH].val.privacy_score = DerivedScore(fs'[STATS_PATH].val)
              /\ fs'[STATS_PATH].val.privacy_score \in 0..100
              /\ fs'[STATS_PATH].val.privacy_score >= maxScore]_vars

Elements(seq) == {seq[i] : i \in 1..Len(seq)}
NoDuplicates(seq) == \A i, j \in 1..Len(seq) : i # j => seq[i] # seq[j]
PersistedNetworks(files) ==
    IF files[STATS_PATH].st = "ok" THEN files[STATS_PATH].val.networks ELSE <<>>

\* C26: the recorded network list behaves as a set.  Starting from an
\* absent stats file, the persisted list never holds a name twice and, once
\* a stats update has been persisted, holds every network supplied to a
\* prove run that succeeded; the stats update of a prove run without a
\* network persists the list that was persisted before it.
C26_NetworksAreASet ==
    /\ [](fs[STATS_PATH].st = "ok"
            => /\ NoDuplicates(fs[STATS_PATH].val.networks)
               /\ supplied \subseteq Elements(fs[STATS_PATH].val.networks))
    /\ [][\A p \in Procs :
            (ProveRun(p) /\ proc[p].pc = "prove_stats_save"
               /\ proc'[p].pc = ProveNextPc("prove_stats_save")
               /\ proc[p].network = None)
              => PersistedNetworks(fs') = PersistedNetworks(fs)]_vars

\* The stats record on disk, the default record when there is none.
PersistedStats(files) ==
    IF files[STATS_PATH].st = "ok" THEN files[STATS_PATH].val ELSE BuilderStats_default
SavedAt(p, pc, nextpc) == proc[p].pc = pc /\ proc'[p].pc = nextpc

\* C27: stats frame.  The record a stats update for a proof persists has
\* the deployments, builder_alias and wallet_address of the record that was
\* persisted before; the record init with an alias persists differs from
\* the one persisted before only in builder_alias, which is the alias
\* given; no step of init without an alias or of dashboard changes a file.
C27_StatsFrame ==
    [][\A p \in Procs :
         /\ SavedAt(p, "prove_stats_save", ProveNextPc("prove_stats_save"))
              => /\ fs'[STATS_PATH].st = "ok"
                 /\ fs'[STATS_PATH].val.deployments = PersistedStats(fs).deployments
                 /\ fs'[STATS_PATH].val.builder_alias = PersistedStats(fs).builder_alias
                 /\ fs'[STATS_PATH].val.wallet_address = PersistedStats(fs).wallet_address
         /\ SavedAt(p, "init_save", "init_report")
              => /\ fs'[STATS_PATH].st = "ok"
                 /\ fs'[STATS_PATH].val =
                      [PersistedStats(fs) EXCEPT !.builder_alias = proc[p].alias[1]]
         /\ (Running(p) /\ (proc[p].cmd = "dashboard"
                              \/ (proc[p].cmd = "init" /\ proc[p].alias = None)))
              => (fs' = fs /\ dirs' = dirs /\ proc'[p].wr = {})]_vars

\* A prove run has updated the stats that init had written with the alias
\* alice, and the alias is still there.
C27_Witness ==
    /\ ProveRun("p1") /\ Done("p1") /\ proc["p1"].reported = "success"
    /\ fs[STATS_PATH].st = "ok" /\ fs[STATS_PATH].run = proc["p1"].run
    /\ fs[STATS_PATH].val.builder_alias = "alice"
    /\ fs[STATS_PATH].val.proofs_generated = 2

\* C28: verify is read-only.  No step of a verify run, whether the run
\* ends with PASSED, with FAILED or with an error, creates, changes or
\* removes a file or a directory: the proof, public-input, verifying-key
\* and stats files are after the step what they were before it.
C28_VerifyReadOnly ==
    [][\A p \in Procs :
         (VerifyRun(p) /\ Running(p))
           => /\ fs' = fs /\ dirs' = dirs
              /\ proc[p].wr = {} /\ proc'[p].wr = {}]_vars

\* A verify run has ended with an error because the proof file is missing,
\* and the file is still missing.
C28_Witness ==
    /\ VerifyRun("p1") /\ Done("p1")
    /\ proc["p1"].exit = "err" /\ proc["p1"].cause = "file"
    /\ fs[PROOF_PATH] = Absent /\ fs[STATS_PATH] = Absent
    /\ proc["p1"].wr = {}

PrivyReportRun(p) == proc[p].cmd = "privy_report"

\* The authentication state is persisted: the state file holds the
\* response of a privy auth.
AuthPersisted == load_auth_state(fs).err = "none"

\* C29: when privy report runs after a privy auth has persisted its
\* authentication state, the report it prints is that of an authenticated
\* user: it holds the DID of the persisted user and privacy_level =
\* maximum, and no entry status = not_authenticated.  When no state is
\* persisted, the handler ends with the not-authenticated error.
C29_ReportOfPersistedUser ==
    \A p \in Procs :
        (PrivyReportRun(p) /\ Done(p) /\ proc[p].exit = "ok")
          => IF AuthPersisted
             THEN /\ proc[p].report # None
                  /\ "status" \notin DOMAIN proc[p].report[1]
                  /\ "did" \in DOMAIN proc[p].report[1]
                  /\ proc[p].report[1].did = fs[PRIVY_AUTH_PATH].val.did
                  /\ proc[p].report[1].privacy_level = "maximum"
             ELSE /\ proc[p].report = None
                  /\ proc[p].cause = "not_authenticated"

\* C30: the two deployment-cost estimators agree.  For each of the four
\* known template ids and every network name, the gas figure of the CLI
\* estimate-cost command is the value estimate_deployment_cost returns for
\* the same template and network.
C30_EstimatorsAgree ==
    \A p \in Procs :
        (/\ proc[p].final_cost # None /\ proc[p].estimated_cost # None
         /\ proc[p].template \in KnownTemplates)
          => /\ proc[p].estimated_cost[1].err = "none"
             /\ proc[p].estimated_cost[1].val = proc[p].final_cost[1]
====
